---- MODULE Spec2Model ----
(***************************************************************************)
(* Seating-layout cellular automaton of src/aoc2020/src/day11.rs: the      *)
(* parser gen, the per-cell rule State::next_seat, the generation step     *)
(* State::update, the fixed-point driver rec and the two entry points      *)
(* solve_part1 (Depth::Next) and solve_part2 (Depth::Inf).                 *)
(*                                                                         *)
(* The input text is held as the sequence of its lines (what str::lines    *)
(* yields), each line a sequence of one-character strings.  Coordinates    *)
(* are 0-based as in the code; sequences are 1-based, hence the +1.        *)
(*                                                                         *)
(* rec calls itself from inside its own frame, where the State it built    *)
(* is still alive: frames holds the States of the invocations that have    *)
(* not returned.  A call that finds the stack full aborts the process.     *)
(***************************************************************************)
EXTENDS Integers, Sequences, FiniteSets, TLC

VARIABLES input, pc, err, parsed, depth, prev, state, results, frames

vars == <<input, pc, err, parsed, depth, prev, state, results, frames>>

(* ---------------------------- bounds ----------------------------------- *)
\* exhaustively enumerated well-formed layouts: at most MaxH rows, MaxW
\* columns and MaxCells cells
MaxH == 3
MaxW == 3
MaxCells == 6
\* exhaustively enumerated raw texts: at most MaxLines lines of at most
\* MaxLineLen characters, MaxChars characters in all
MaxLines == 2
MaxLineLen == 3
MaxChars == 3
\* invocations of rec followed when the value of a whole run is computed
MaxGens == 8
\* frames of rec the call stack has room for (some 4*10^4 under the default
\* 8 MiB main-thread stack; the layouts enumerated here that reach a
\* generation without changes do so within 7 invocations)
StackFrames == 10

(* ---------------------------- data ------------------------------------- *)
Seat == {"Floor", "Empty", "Occupied"}
Depth == {"Inf", "Next"}

\* the characters a line is made of: the three layout letters, one letter
\* outside the alphabet and one whitespace character
SeatChars == {".", "L", "#"}
Chars == SeatChars \cup {"X", " "}
Whitespace == {" "}

\* panics of the program
InvalidLetter == "Invalid letter"
IndexPanic == "index out of bounds"
NoPanic == "none"

\* value of a State-typed variable that holds no State
NoState == [none |-> TRUE]
\* value of a result that was not computed
NoResult == -1

(* ---------------------------- inputs ----------------------------------- *)
\* the layout of tests::get_input
Example ==
   << <<"L",".","L","L",".","L","L",".","L","L">>,
      <<"L","L","L","L","L","L","L",".","L","L">>,
      <<"L",".","L",".","L",".",".","L",".",".">>,
      <<"L","L","L","L",".","L","L",".","L","L">>,
      <<"L",".","L","L",".","L","L",".","L","L">>,
      <<"L",".","L","L","L","L","L",".","L","L">>,
      <<".",".","L",".","L",".",".",".",".",".">>,
      <<"L","L","L","L","L","L","L","L","L","L">>,
      <<"L",".","L","L","L","L","L","L",".","L">>,
      <<"L",".","L","L","L","L","L",".","L","L">> >>

\* a 4x4 layout whose seats form an octagon
Octagon ==
   << <<".","L","L",".">>,
      <<"L","L","L","L">>,
      <<"L","L","L","L">>,
      <<".","L","L",".">> >>

NamedInputs == {Example, Octagon}

GridInputs ==
   UNION { [1..d[1] -> [1..d[2] -> SeatChars]] :
           d \in { e \in (1..MaxH) \X (1..MaxW) : e[1] * e[2] <= MaxCells } }

Lines == UNION { [1..n -> Chars] : n \in 0..MaxLineLen }

\* the texts of n lines with at most c characters in all
RECURSIVE Texts(_, _)
Texts(n, c) ==
   IF n = 0 THEN {<<>>}
   ELSE UNION { { <<l>> \o t : t \in Texts(n - 1, c - Len(l)) } :
                l \in { k \in Lines : Len(k) <= c } }

RawInputs == UNION { Texts(n, MaxChars) : n \in 0..MaxLines }

Inputs == GridInputs \cup RawInputs \cup NamedInputs

(* ---------------------------- Seat::from ------------------------------- *)
\* Seat::from whose last arm yields Seat::Floor
Seat_from_lenient(c) ==
   CASE c = "." -> "Floor"
     [] c = "L" -> "Empty"
     [] c = "#" -> "Occupied"
     [] OTHER   -> "Floor"

Seat_from(c) ==
   CASE c = "." -> "Floor"
     [] c = "L" -> "Empty"
     [] c = "#" -> "Occupied"
     [] OTHER   -> InvalidLetter

(* ---------------------------- str::trim -------------------------------- *)
RECURSIVE trim_start(_)
trim_start(line) ==
   IF line # <<>> /\ Head(line) \in Whitespace
   THEN trim_start(Tail(line))
   ELSE line

RECURSIVE trim_end(_)
trim_end(line) ==
   IF line # <<>> /\ line[Len(line)] \in Whitespace
   THEN trim_end(SubSeq(line, 1, Len(line) - 1))
   ELSE line

trim(line) == trim_end(trim_start(line))

(* ---------------------------- State::new ------------------------------- *)
\* State::new that takes the width 0 for an empty layout
State_new_lenient(seats) ==
   [panic |-> NoPanic,
    state |-> [seats |-> seats, height |-> Len(seats),
               width |-> IF Len(seats) = 0 THEN 0 ELSE Len(seats[1]),
               changes |-> 0]]

\* the State built from a layout, or the panic of seats[0] on an empty one
State_new(seats) ==
   IF Len(seats) = 0
   THEN [panic |-> IndexPanic, state |-> NoState]
   ELSE [panic |-> NoPanic,
         state |-> [seats |-> seats, height |-> Len(seats),
                    width |-> Len(seats[1]), changes |-> 0]]

(* ---------------------------- gen -------------------------------------- *)
\* the closure of the outer map: one line trimmed and mapped by Seat::from
gen_line(line) ==
   LET t == trim(line) IN [j \in 1..Len(t) |-> Seat_from(t[j])]

\* gen: the parsed State, or the panic that ends it; Seat::from panics while
\* the layout is collected, before State::new is reached
gen(text) ==
   LET seats == [i \in 1..Len(text) |-> gen_line(text[i])] IN
   IF \E i \in 1..Len(seats) : \E j \in 1..Len(seats[i]) : seats[i][j] = InvalidLetter
   THEN [panic |-> InvalidLetter, state |-> NoState]
   ELSE State_new(seats)

(* ---------------------------- State::next_seat ------------------------- *)
dirs == << <<-1, -1>>, <<-1, 0>>, <<-1, 1>>,
           <<0, -1>>, <<0, 1>>,
           <<1, -1>>, <<1, 0>>, <<1, 1>> >>

in_bounds(s, x, y) == x >= 0 /\ x < s.width /\ y >= 0 /\ y < s.height

\* self.seats[y as usize][x as usize]
index(s, x, y) == s.seats[y + 1][x + 1]

\* the while loop stepping in both modes, whatever depth is
RECURSIVE scan_any_depth(_, _, _, _, _, _)
scan_any_depth(s, x, y, xdir, ydir, d) ==
   IF in_bounds(s, x, y) /\ index(s, x, y) = "Floor"
   THEN scan_any_depth(s, x + xdir, y + ydir, xdir, ydir, d)
   ELSE <<x, y>>

\* the while loop stepping over Empty seats as well as Floor
RECURSIVE scan_through_empty(_, _, _, _, _, _)
scan_through_empty(s, x, y, xdir, ydir, d) ==
   IF d = "Inf" /\ in_bounds(s, x, y) /\ index(s, x, y) # "Occupied"
   THEN scan_through_empty(s, x + xdir, y + ydir, xdir, ydir, d)
   ELSE <<x, y>>

\* the while loop: the position at which the scan in one direction stops
RECURSIVE scan(_, _, _, _, _, _)
scan(s, x, y, xdir, ydir, d) ==
   IF d = "Inf" /\ in_bounds(s, x, y) /\ index(s, x, y) = "Floor"
   THEN scan(s, x + xdir, y + ydir, xdir, ydir, d)
   ELSE <<x, y>>

\* the closure counting any seat the scan stops at, Empty ones too
seen_any_seat(s, x, y, xdir, ydir, d) ==
   LET p == scan(s, x + xdir, y + ydir, xdir, ydir, d) IN
   IF in_bounds(s, p[1], p[2]) /\ index(s, p[1], p[2]) # "Floor" THEN 1 ELSE 0

\* the closure of the fold: what one direction adds to acc
seen(s, x, y, xdir, ydir, d) ==
   LET p == scan(s, x + xdir, y + ydir, xdir, ydir, d) IN
   IF in_bounds(s, p[1], p[2]) /\ index(s, p[1], p[2]) = "Occupied" THEN 1 ELSE 0

\* the fold over dirs, from direction i on
RECURSIVE count_from(_, _, _, _, _, _)
count_from(s, x, y, d, i, acc) ==
   IF i > Len(dirs) THEN acc
   ELSE count_from(s, x, y, d, i + 1, acc + seen(s, x, y, dirs[i][1], dirs[i][2], d))

count(s, x, y, d) == count_from(s, x, y, d, 1, 0)

\* cond with the threshold of Depth::Next in both arms
cond_same(d) == 4

\* cond with both thresholds one too high (count > cond for count >= cond)
cond_strict(d) == IF d = "Inf" THEN 6 ELSE 5

cond(d) == IF d = "Inf" THEN 5 ELSE 4

\* next_seat whose first arm does not test for Seat::Empty
next_seat_unguarded(s, x, y, d) ==
   IF index(s, x, y) # "Occupied" /\ count(s, x, y, d) = 0 THEN "Occupied"
   ELSE IF index(s, x, y) = "Occupied" /\ count(s, x, y, d) >= cond(d) THEN "Empty"
   ELSE index(s, x, y)

\* next_seat whose first arm takes a seat with one neighbor too
next_seat_eager(s, x, y, d) ==
   IF index(s, x, y) = "Empty" /\ count(s, x, y, d) <= 1 THEN "Occupied"
   ELSE IF index(s, x, y) = "Occupied" /\ count(s, x, y, d) >= cond(d) THEN "Empty"
   ELSE index(s, x, y)

next_seat(s, x, y, d) ==
   IF index(s, x, y) = "Empty" /\ count(s, x, y, d) = 0 THEN "Occupied"
   ELSE IF index(s, x, y) = "Occupied" /\ count(s, x, y, d) >= cond(d) THEN "Empty"
   ELSE index(s, x, y)

(* ---------------------------- State::update ---------------------------- *)
\* next_seat is called for every x < width of every row y < height and
\* indexes self.seats[y][x]: a row shorter than width makes update panic
update_panic(s) ==
   IF \E y \in 0..(s.height - 1) : Len(s.seats[y + 1]) < s.width
   THEN IndexPanic
   ELSE NoPanic

\* update that rewrites self.seats itself: next_seat reads the cells already
\* written in this generation (cell i of the rectangle in row-major order)
RECURSIVE in_place_from(_, _, _)
in_place_from(s, d, i) ==
   IF i >= s.height * s.width THEN s.seats
   ELSE in_place_from(
           [s EXCEPT !.seats[(i \div s.width) + 1][(i % s.width) + 1] =
                        next_seat(s, i % s.width, i \div s.width, d)],
           d, i + 1)

update_seats_in_place(s, d) == in_place_from(s, d, 0)

\* the buffer seats after the folds: the copy of self.seats in which every
\* cell of the height x width rectangle holds what next_seat computes from
\* self; cells of a row beyond width keep their value
update_seats(s, d) ==
   [y1 \in 1..Len(s.seats) |->
      [x1 \in 1..Len(s.seats[y1]) |->
         IF x1 <= s.width THEN next_seat(s, x1 - 1, y1 - 1, d) ELSE s.seats[y1][x1]]]

\* the inner fold of changes, from column x on: row y of the buffer still
\* holds the cells of self when it is compared
RECURSIVE fold_row(_, _, _, _, _)
fold_row(s, d, y, x, acc) ==
   IF x >= s.width THEN acc
   ELSE fold_row(s, d, y, x + 1,
           acc + (IF next_seat(s, x, y, d) # index(s, x, y) THEN 1 ELSE 0))

\* the outer fold without "+ acc": the count of the last row only
RECURSIVE fold_rows_last(_, _, _, _)
fold_rows_last(s, d, y, acc) ==
   IF y >= s.height THEN acc
   ELSE fold_rows_last(s, d, y + 1, fold_row(s, d, y, 0, 0))

\* the outer fold of changes, from row y on
RECURSIVE fold_rows(_, _, _, _)
fold_rows(s, d, y, acc) ==
   IF y >= s.height THEN acc
   ELSE fold_rows(s, d, y + 1, fold_row(s, d, y, 0, 0) + acc)

\* update: the successor State, or the panic that ends it
update(s, d) ==
   IF update_panic(s) # NoPanic
   THEN [panic |-> update_panic(s), state |-> NoState]
   ELSE [panic |-> NoPanic,
         state |-> [seats |-> update_seats(s, d), height |-> s.height,
                    width |-> s.width, changes |-> fold_rows(s, d, 0, 0)]]

(* ---------------------------- State::count_occupied -------------------- *)
RECURSIVE count_row(_)
count_row(row) ==
   IF row = <<>> THEN 0
   ELSE (IF Head(row) = "Occupied" THEN 1 ELSE 0) + count_row(Tail(row))

RECURSIVE count_rows(_)
count_rows(seats) ==
   IF seats = <<>> THEN 0 ELSE count_row(Head(seats)) + count_rows(Tail(seats))

\* count_occupied that counts every seat, Empty ones too
count_seats(s) ==
   Cardinality({p \in UNION {{<<y, x>> : x \in 1..Len(s.seats[y])} : y \in 1..Len(s.seats)} :
                s.seats[p[1]][p[2]] # "Floor"})

count_occupied(s) == count_rows(s.seats)

(* ---------------------------- the program ------------------------------ *)
\* before the generator is called no text was read
Init ==
   /\ input = <<>>
   /\ pc = "start"
   /\ err = NoPanic
   /\ parsed = NoState
   /\ depth = "Next"
   /\ prev = NoState
   /\ state = NoState
   /\ results = [d \in Depth |-> NoResult]
   /\ frames = <<>>

\* the generator is called on a text: parse it; a panic ends the program
Gen ==
   \E text \in Inputs : \E r \in {gen(text)} :
      /\ pc = "start"
      /\ input' = text
      /\ IF r.panic # NoPanic
         THEN /\ pc' = "panic"
              /\ err' = r.panic
              /\ parsed' = parsed
         ELSE /\ pc' = "idle"
              /\ err' = err
              /\ parsed' = r.state
      /\ UNCHANGED <<depth, prev, state, results, frames>>

\* entry of a solver: rec is called on the parsed State
solve(d) ==
   /\ pc = "idle"
   /\ results[d] = NoResult
   /\ pc' = "rec"
   /\ depth' = d
   /\ prev' = NoState
   /\ state' = parsed
   /\ frames' = <<>>
   /\ UNCHANGED <<input, err, parsed, results>>

solve_part1 == solve("Next")

solve_part2 == solve("Inf")

\* rec that tests changes of the State it was called on before it steps
rec_checks_first ==
   /\ pc = "rec"
   /\ IF Len(frames) >= StackFrames
      THEN /\ pc' = "abort"
           /\ UNCHANGED <<err, prev, state, results, frames>>
      ELSE IF state.changes = 0
      THEN /\ pc' = "idle"
           /\ results' = [results EXCEPT ![depth] = count_occupied(state)]
           /\ frames' = <<>>
           /\ UNCHANGED <<err, prev, state>>
      ELSE \E r \in {update(state, depth)} :
              IF r.panic # NoPanic
              THEN /\ pc' = "panic"
                   /\ err' = r.panic
                   /\ frames' = <<>>
                   /\ UNCHANGED <<prev, state, results>>
              ELSE /\ prev' = state
                   /\ state' = r.state
                   /\ err' = err
                   /\ pc' = "rec"
                   /\ results' = results
                   /\ frames' = Append(frames, r.state)
   /\ UNCHANGED <<input, parsed, depth>>

\* rec that writes the State update returned over the State it was called on
rec_in_place ==
   /\ pc = "rec"
   /\ IF Len(frames) >= StackFrames
      THEN /\ pc' = "abort"
           /\ UNCHANGED <<err, parsed, prev, state, results, frames>>
      ELSE \E r \in {update(state, depth)} :
         IF r.panic # NoPanic
         THEN /\ pc' = "panic"
              /\ err' = r.panic
              /\ frames' = <<>>
              /\ UNCHANGED <<parsed, prev, state, results>>
         ELSE /\ prev' = state
              /\ state' = r.state
              /\ parsed' = r.state
              /\ err' = err
              /\ IF r.state.changes = 0
                 THEN /\ pc' = "idle"
                      /\ results' = [results EXCEPT ![depth] = count_occupied(r.state)]
                      /\ frames' = <<>>
                 ELSE /\ pc' = "rec"
                      /\ results' = results
                      /\ frames' = Append(frames, r.state)
   /\ UNCHANGED <<input, depth>>

\* one invocation of rec.  state is its parameter; its frame takes a place
\* on the stack, and when the stack has no room for it the process aborts
\* (stack overflow: not a panic, nothing unwinds, no value is returned).
\* Otherwise update builds the next State in this frame: afterwards state
\* is that State and prev the one it was computed from.  With changes = 0
\* the occupancy is returned through every frame; otherwise rec is called
\* on the new State while this frame, and the State in it, stay alive.  A
\* panic of update unwinds the stack.
rec ==
   /\ pc = "rec"
   /\ IF Len(frames) >= StackFrames
      THEN /\ pc' = "abort"
           /\ UNCHANGED <<err, prev, state, results, frames>>
      ELSE \E r \in {update(state, depth)} :
         IF r.panic # NoPanic
         THEN /\ pc' = "panic"
              /\ err' = r.panic
              /\ frames' = <<>>
              /\ UNCHANGED <<prev, state, results>>
         ELSE /\ prev' = state
              /\ state' = r.state
              /\ err' = err
              /\ IF r.state.changes = 0
                 THEN /\ pc' = "idle"
                      /\ results' = [results EXCEPT ![depth] = count_occupied(r.state)]
                      /\ frames' = <<>>
                 ELSE /\ pc' = "rec"
                      /\ results' = results
                      /\ frames' = Append(frames, r.state)
   /\ UNCHANGED <<input, parsed, depth>>

Next == Gen \/ solve_part1 \/ solve_part2 \/ rec

Spec == Init /\ [][Next]_vars

\* a started rec keeps running: nothing suspends it
FairSpec == Spec /\ WF_vars(rec)

(* ======================================================================= *)
(* Properties                                                              *)
(* ======================================================================= *)

\* a State whose rows all have the length width
Rectangular(s) ==
   s # NoState /\ \A y \in 1..Len(s.seats) : Len(s.seats[y]) = s.width

\* the cell of State s at column x, row y (0-based)
At(s, x, y) == s.seats[y + 1][x + 1]

Inside(s, x, y) == x \in 0..(s.width - 1) /\ y \in 0..(s.height - 1)

Offsets == ((-1..1) \X (-1..1)) \ {<<0, 0>>}

\* a generation step was taken: state is the successor of prev under depth
Stepped == pc \in {"rec", "idle"} /\ prev # NoState

\* C1: on the 10x10 example layout the driver returns 37 occupied seats in
\* Adjacent mode (solve_part1) and 26 in LineOfSight mode (solve_part2).
C1_ExampleResults ==
   input = Example =>
      /\ results["Next"] \in {NoResult, 37}
      /\ results["Inf"] \in {NoResult, 26}

C1_Witness ==
   input = Example /\ results["Next"] = 37 /\ results["Inf"] = 26

\* C2 as stated: on every rectangular layout, in each mode, a started driver
\* eventually returns.
C2_ConvergenceAsStated ==
   (pc = "rec" /\ Rectangular(parsed)) ~> (pc = "idle")

\* C2: a started driver eventually returns on every rectangular layout in
\* LineOfSight mode, and in Adjacent mode on every rectangular layout of at
\* most 3 rows or at most 3 columns.  On the 4x4 layout .LL./LLLL/LLLL/.LL.
\* in Adjacent mode no generation has change count 0: the driver recurses
\* until the stack is full and the process aborts without a result.
C2_Convergence ==
   /\ (/\ pc = "rec"
       /\ Rectangular(parsed)
       /\ (depth = "Inf" \/ parsed.height <= 3 \/ parsed.width <= 3))
      ~> (pc = "idle")
   /\ (pc = "rec" /\ input = Octagon /\ depth = "Next")
      ~> (/\ pc = "abort"
          /\ Len(frames) = StackFrames
          /\ \A i \in 1..Len(frames) : frames[i].changes # 0
          /\ results["Next"] = NoResult)

\* a run that took more than one generation has returned
C2_Witness ==
   /\ pc = "idle"
   /\ Rectangular(parsed)
   /\ prev # NoState
   /\ prev.changes > 0
   /\ state.changes = 0
   /\ results[depth] # NoResult

\* C3: a coordinate is Floor in the grid of a run exactly when it is Floor in
\* the initial grid: Floor stays Floor and no seat becomes Floor.
C3_FloorInvariance ==
   (pc \in {"rec", "idle"} /\ state # NoState) =>
      \A y \in 1..Len(parsed.seats) : \A x \in 1..Len(parsed.seats[y]) :
         (parsed.seats[y][x] = "Floor") <=> (state.seats[y][x] = "Floor")

\* a run has changed seats of a layout that has a Floor cell
C3_Witness ==
   /\ Stepped
   /\ prev.changes > 0
   /\ state # parsed
   /\ \E y \in 1..Len(parsed.seats) : \E x \in 1..Len(parsed.seats[y]) :
         parsed.seats[y][x] = "Floor" /\ state.seats[y][x] = "Floor"

\* the number of Occupied cells among the in-bounds cells one step away
AdjacentOccupied(s, x, y) ==
   Cardinality({o \in Offsets :
      Inside(s, x + o[1], y + o[2]) /\ At(s, x + o[1], y + o[2]) = "Occupied"})

\* C4: in Adjacent mode an Occupied cell with exactly 3 Occupied adjacent
\* cells is Occupied in the next generation, one with exactly 4 is Empty.
C4_AdjacentThreshold ==
   (Stepped /\ depth = "Next") =>
      \A y \in 0..(prev.height - 1) : \A x \in 0..(prev.width - 1) :
         At(prev, x, y) = "Occupied" =>
            /\ AdjacentOccupied(prev, x, y) = 3 => At(state, x, y) = "Occupied"
            /\ AdjacentOccupied(prev, x, y) = 4 => At(state, x, y) = "Empty"

C4_Witness ==
   /\ Stepped /\ depth = "Next"
   /\ \E y \in 0..(prev.height - 1) : \E x \in 0..(prev.width - 1) :
         /\ At(prev, x, y) = "Occupied"
         /\ AdjacentOccupied(prev, x, y) = 4
         /\ At(state, x, y) = "Empty"
   /\ \E y \in 0..(prev.height - 1) : \E x \in 0..(prev.width - 1) :
         /\ At(prev, x, y) = "Occupied"
         /\ AdjacentOccupied(prev, x, y) = 3
         /\ At(state, x, y) = "Occupied"

\* direction o shows an Occupied seat from (x, y): some cell k steps away is
\* Occupied and every cell nearer in that direction is Floor
ShowsOccupied(s, x, y, o) ==
   \E k \in 1..(s.width + s.height) :
      /\ Inside(s, x + k * o[1], y + k * o[2])
      /\ At(s, x + k * o[1], y + k * o[2]) = "Occupied"
      /\ \A j \in 1..(k - 1) : At(s, x + j * o[1], y + j * o[2]) = "Floor"

SightOccupied(s, x, y) ==
   Cardinality({o \in Offsets : ShowsOccupied(s, x, y, o)})

\* C5: in LineOfSight mode an Occupied cell with exactly 4 directions showing
\* an Occupied seat is Occupied in the next generation, one with exactly 5 is
\* Empty.
C5_LineOfSightThreshold ==
   (Stepped /\ depth = "Inf") =>
      \A y \in 0..(prev.height - 1) : \A x \in 0..(prev.width - 1) :
         At(prev, x, y) = "Occupied" =>
            /\ SightOccupied(prev, x, y) = 4 => At(state, x, y) = "Occupied"
            /\ SightOccupied(prev, x, y) = 5 => At(state, x, y) = "Empty"

\* a cell with exactly 5, one of them seen across a Floor cell, was vacated
\* and a cell with exactly 4 was kept
C5_Witness ==
   /\ Stepped /\ depth = "Inf"
   /\ \E y \in 0..(prev.height - 1) : \E x \in 0..(prev.width - 1) :
         /\ At(prev, x, y) = "Occupied"
         /\ SightOccupied(prev, x, y) = 5
         /\ AdjacentOccupied(prev, x, y) < 5
         /\ At(state, x, y) = "Empty"
   /\ \E y \in 0..(prev.height - 1) : \E x \in 0..(prev.width - 1) :
         /\ At(prev, x, y) = "Occupied"
         /\ SightOccupied(prev, x, y) = 4
         /\ At(state, x, y) = "Occupied"

\* line has a character that is not a layout letter and that trim keeps: a
\* letter outside the alphabet, or whitespace between two other characters
KeepsInvalid(line) ==
   \E j \in 1..Len(line) :
      /\ line[j] \notin SeatChars
      /\ \/ line[j] \notin Whitespace
         \/ /\ \E i \in 1..(j - 1) : line[i] \notin Whitespace
            /\ \E k \in (j + 1)..Len(line) : line[k] \notin Whitespace

HasInvalidCharacter(text) == \E i \in 1..Len(text) : KeepsInvalid(text[i])

\* C7: a text with a character outside {'.', 'L', '#'} left in a line after
\* trimming makes the parser fail on that character (the panic "Invalid
\* letter" of Seat::from); no State is produced and no run is started.
C7_InvalidCharacter ==
   (pc # "start" /\ HasInvalidCharacter(input)) =>
      /\ pc = "panic"
      /\ err = InvalidLetter
      /\ parsed = NoState
      /\ state = NoState

\* the parser failed on a space inside a line
C7_Witness ==
   /\ pc = "panic"
   /\ err = InvalidLetter
   /\ \E i \in 1..Len(input) : \E j \in 2..(Len(input[i]) - 1) :
         /\ input[i][j] = " "
         /\ \A k \in 1..Len(input[i]) : k # j => input[i][k] \in SeatChars

\* a text of layout letters only whose lines do not all have the same length
InconsistentWidth(text) ==
   /\ \A i \in 1..Len(text) : \A j \in 1..Len(text[i]) : text[i][j] \in SeatChars
   /\ \E i \in 1..Len(text) : \E k \in 1..Len(text) : Len(text[i]) # Len(text[k])

\* C8: a text whose lines do not all have the same length is rejected: no
\* run on it ever reports an occupancy count.
C8_InconsistentWidthRejected ==
   (pc # "start" /\ InconsistentWidth(input)) =>
      \A d \in Depth : results[d] = NoResult

\* C9: a text with no lines makes the parser fail (the panic of seats[0] in
\* State::new); no State, zero-size or other, is produced.
C9_EmptyInput ==
   (pc # "start" /\ input = <<>>) =>
      /\ pc = "panic"
      /\ err = IndexPanic
      /\ parsed = NoState
      /\ state = NoState

C9_Witness ==
   pc = "panic" /\ input = <<>> /\ err = IndexPanic /\ parsed = NoState

\* the value rec returns when called on s with depth d, followed for at most
\* n invocations
RECURSIVE RunAlone(_, _, _)
RunAlone(s, d, n) ==
   LET r == update(s, d) IN
   IF n = 0 \/ r.panic # NoPanic THEN NoResult
   ELSE IF r.state.changes = 0 THEN count_occupied(r.state)
   ELSE RunAlone(r.state, d, n - 1)

\* C10: while the solvers run, in either order, the parsed State stays what
\* the parser produced, and the result of each mode is the result of that
\* mode run alone on a fresh parse of the text.
C10_Independence ==
   pc \in {"idle", "rec"} =>
      /\ parsed = gen(input).state
      /\ \A d \in Depth :
            results[d] # NoResult => results[d] = RunAlone(gen(input).state, d, MaxGens)

\* both solvers have returned, solve_part1 after solve_part2, with different
\* results, and the last run changed the grid
C10_Witness ==
   /\ pc = "idle"
   /\ depth = "Next"
   /\ results["Next"] # NoResult
   /\ results["Inf"] # NoResult
   /\ results["Next"] # results["Inf"]
   /\ state.seats # parsed.seats

\* the neighbor count of section 4.2 of the specification
NeighborCount(s, x, y, d) ==
   IF d = "Inf" THEN SightOccupied(s, x, y) ELSE AdjacentOccupied(s, x, y)

Threshold(d) == IF d = "Inf" THEN 5 ELSE 4

\* the transition rule of section 4.2 applied to the cell (x, y) of s
Rule(s, x, y, d) ==
   CASE At(s, x, y) = "Empty" /\ NeighborCount(s, x, y, d) = 0 -> "Occupied"
     [] At(s, x, y) = "Occupied" /\ NeighborCount(s, x, y, d) >= Threshold(d) -> "Empty"
     [] OTHER -> At(s, x, y)

\* C11: the grid update returns holds at every coordinate the value the rule
\* gives for it when every lookup reads the grid as it was at the start of
\* the generation.
C11_SynchronousUpdate ==
   Stepped =>
      \A y \in 0..(prev.height - 1) : \A x \in 0..(prev.width - 1) :
         At(state, x, y) = Rule(prev, x, y, depth)

\* two cells next to each other in a row were both changed by one step
C11_Witness ==
   /\ Stepped
   /\ \E y \in 0..(prev.height - 1) : \E x \in 0..(prev.width - 2) :
         /\ At(state, x, y) # At(prev, x, y)
         /\ At(state, x + 1, y) # At(prev, x + 1, y)

\* the coordinates at which the grids of s and t differ
Changed(s, t) ==
   { p \in (0..(s.width - 1)) \X (0..(s.height - 1)) :
        At(s, p[1], p[2]) # At(t, p[1], p[2]) }

\* C12: changes of the State update returns is the number of coordinates at
\* which its grid differs from the grid it was computed from; it is 0
\* exactly when the two grids are the same.
C12_ChangeCount ==
   Stepped =>
      /\ state.changes = Cardinality(Changed(prev, state))
      /\ state.changes = 0 <=> state.seats = prev.seats

\* a step changed cells of two rows, the last row among them or not
C12_Witness ==
   /\ Stepped
   /\ \E p \in Changed(prev, state) : \E q \in Changed(prev, state) : p[2] # q[2]
   /\ state.changes = Cardinality(Changed(prev, state))

\* the number of Occupied cells of the grid of s
Occupancy(s) ==
   Cardinality({ p \in UNION { { <<y, x>> : x \in 1..Len(s.seats[y]) } : y \in 1..Len(s.seats) } :
                 s.seats[p[1]][p[2]] = "Occupied" })

\* no cell of s is changed by the rule
FixedPoint(s, d) ==
   \A y \in 0..(s.height - 1) : \A x \in 0..(s.width - 1) :
      /\ ~(At(s, x, y) = "Empty" /\ NeighborCount(s, x, y, d) = 0)
      /\ ~(At(s, x, y) = "Occupied" /\ NeighborCount(s, x, y, d) >= Threshold(d))

\* C13: rec computes at least one generation before it returns, goes on only
\* from a generation with a non-zero change count, and returns at a
\* generation with change count 0: the value returned is the occupancy count
\* of that generation's grid, which is a fixed point of the rule.
C13_FixedPointDriver ==
   /\ (pc \in {"rec", "abort"} /\ prev # NoState) => state.changes # 0
   /\ pc = "abort" => (prev # NoState /\ results[depth] = NoResult)
   /\ (pc = "idle" /\ state # NoState) =>
         /\ prev # NoState
         /\ state.changes = 0
         /\ results[depth] = Occupancy(state)
         /\ FixedPoint(state, depth)

\* rec returned after more than one generation, from a grid with Occupied
\* and Empty seats that differs from the parsed one
C13_Witness ==
   /\ pc = "idle"
   /\ prev # NoState
   /\ prev.changes > 0
   /\ state.seats # parsed.seats
   /\ results[depth] = Occupancy(state)
   /\ results[depth] > 0
   /\ \E y \in 0..(state.height - 1) : \E x \in 0..(state.width - 1) :
         At(state, x, y) = "Empty"

\* the directions of dirs, as a set
DirSet == { dirs[i] : i \in 1..Len(dirs) }

\* C14: in LineOfSight mode a direction adds 1 to the neighbor count exactly
\* when the first non-Floor cell in that direction is Occupied; it adds 0
\* when that cell is Empty or when only Floor lies before the boundary.
C14_LineOfSightCount ==
   (Stepped /\ depth = "Inf") =>
      /\ DirSet = Offsets /\ Len(dirs) = 8
      /\ \A y \in 0..(prev.height - 1) : \A x \in 0..(prev.width - 1) :
            /\ \A o \in DirSet :
                  seen(prev, x, y, o[1], o[2], "Inf") =
                     IF ShowsOccupied(prev, x, y, o) THEN 1 ELSE 0
            /\ count(prev, x, y, "Inf") = SightOccupied(prev, x, y)

\* a LineOfSight step was taken from a grid in which one direction shows an
\* Occupied seat across a Floor cell and another has an Occupied seat hidden
\* behind an Empty one
C14_Witness ==
   /\ Stepped /\ depth = "Inf"
   /\ \E y \in 0..(prev.height - 1) : \E x \in 0..(prev.width - 1) : \E o \in Offsets :
         /\ Inside(prev, x + 2 * o[1], y + 2 * o[2])
         /\ At(prev, x + o[1], y + o[2]) = "Floor"
         /\ At(prev, x + 2 * o[1], y + 2 * o[2]) = "Occupied"
         /\ seen(prev, x, y, o[1], o[2], "Inf") = 1
   /\ \E y \in 0..(prev.height - 1) : \E x \in 0..(prev.width - 1) : \E o \in Offsets :
         /\ Inside(prev, x + 2 * o[1], y + 2 * o[2])
         /\ At(prev, x + o[1], y + o[2]) = "Empty"
         /\ At(prev, x + 2 * o[1], y + 2 * o[2]) = "Occupied"
         /\ seen(prev, x, y, o[1], o[2], "Inf") = 0

\* C15: in Adjacent mode the neighbor count of a cell is the number of
\* Occupied cells among the in-bounds cells exactly one step away: nothing
\* outside the grid, not the cell itself, nothing behind a Floor cell.
C15_AdjacentCount ==
   (Stepped /\ depth = "Next") =>
      /\ DirSet = Offsets /\ Len(dirs) = 8
      /\ \A y \in 0..(prev.height - 1) : \A x \in 0..(prev.width - 1) :
            /\ \A o \in DirSet :
                  seen(prev, x, y, o[1], o[2], "Next") =
                     IF /\ Inside(prev, x + o[1], y + o[2])
                        /\ At(prev, x + o[1], y + o[2]) = "Occupied"
                     THEN 1 ELSE 0
            /\ count(prev, x, y, "Next") = AdjacentOccupied(prev, x, y)

\* an Adjacent step was taken from a grid with an Occupied corner cell that
\* has an Occupied neighbor and an Occupied seat behind a Floor neighbor
C15_Witness ==
   /\ Stepped /\ depth = "Next"
   /\ Inside(prev, 0, 0)
   /\ At(prev, 0, 0) = "Occupied"
   /\ count(prev, 0, 0, "Next") >= 1
   /\ count(prev, 0, 0, "Next") < SightOccupied(prev, 0, 0)

\* C16: in both modes an Empty cell is Occupied in the next generation
\* exactly when its neighbor count is 0, an Empty cell with a neighbor count
\* of 1 or more stays Empty, and an Occupied cell with a neighbor count below
\* the threshold of the mode stays Occupied.
C16_EmptySeatRule ==
   Stepped =>
      \A y \in 0..(prev.height - 1) : \A x \in 0..(prev.width - 1) :
         /\ At(prev, x, y) = "Empty" =>
               /\ At(state, x, y) = "Occupied" <=> NeighborCount(prev, x, y, depth) = 0
               /\ NeighborCount(prev, x, y, depth) >= 1 => At(state, x, y) = "Empty"
         /\ (At(prev, x, y) = "Occupied" /\ NeighborCount(prev, x, y, depth) < Threshold(depth))
               => At(state, x, y) = "Occupied"

\* one step took an Empty seat with no neighbor, left an Empty seat with
\* neighbors Empty and left an Occupied seat with neighbors Occupied
C16_Witness ==
   /\ Stepped
   /\ \E y \in 0..(prev.height - 1) : \E x \in 0..(prev.width - 1) :
         /\ At(prev, x, y) = "Empty" /\ At(state, x, y) = "Occupied"
         /\ NeighborCount(prev, x, y, depth) = 0
   /\ \E y \in 0..(prev.height - 1) : \E x \in 0..(prev.width - 1) :
         /\ At(prev, x, y) = "Empty" /\ At(state, x, y) = "Empty"
         /\ NeighborCount(prev, x, y, depth) >= 1
   /\ \E y \in 0..(prev.height - 1) : \E x \in 0..(prev.width - 1) :
         /\ At(prev, x, y) = "Occupied" /\ At(state, x, y) = "Occupied"
         /\ NeighborCount(prev, x, y, depth) \in 1..(Threshold(depth) - 1)

\* a State of at least one row and one column whose seats has height rows of
\* width cells each
WellShaped(s) ==
   /\ s.height >= 1
   /\ s.width >= 1
   /\ Len(s.seats) = s.height
   /\ \A y \in 1..Len(s.seats) : Len(s.seats[y]) = s.width

\* C17: the State gen produces and every State reached from it by update
\* has height >= 1, width >= 1, height rows and width cells in every row;
\* update changes neither height nor width.
C17_GridShape ==
   /\ parsed # NoState => WellShaped(parsed)
   /\ (pc \in {"rec", "idle"} /\ state # NoState) => WellShaped(state)
   /\ Stepped => (state.height = prev.height /\ state.width = prev.width)

\* a grid without a Floor cell
NoFloor(s) ==
   \A y \in 1..Len(s.seats) : \A x \in 1..Len(s.seats[y]) : s.seats[y][x] # "Floor"

\* C18: on a grid without Floor cells next_seat counts the same neighbors
\* for every cell in both modes, and the next generations of the two modes
\* differ exactly at the Occupied cells with a neighbor count of 4, which
\* Adjacent mode vacates and LineOfSight mode keeps.
C18_ModeAgreement ==
   (Stepped /\ Rectangular(prev) /\ NoFloor(prev)) =>
      \A y \in 0..(prev.height - 1) : \A x \in 0..(prev.width - 1) :
         /\ count(prev, x, y, "Next") = count(prev, x, y, "Inf")
         /\ next_seat(prev, x, y, "Next") # next_seat(prev, x, y, "Inf")
               <=> (At(prev, x, y) = "Occupied" /\ count(prev, x, y, "Next") = 4)
         /\ (At(prev, x, y) = "Occupied" /\ count(prev, x, y, "Next") = 4)
               => /\ next_seat(prev, x, y, "Next") = "Empty"
                  /\ next_seat(prev, x, y, "Inf") = "Occupied"
         /\ At(state, x, y) = next_seat(prev, x, y, depth)

\* a step was taken from a grid without Floor in which an Occupied seat has
\* 4 neighbors, one Empty seat has an Occupied seat behind an Empty one, and
\* some cell has a neighbor count other than 4
C18_Witness ==
   /\ Stepped /\ Rectangular(prev) /\ NoFloor(prev)
   /\ \E y \in 0..(prev.height - 1) : \E x \in 0..(prev.width - 1) :
         /\ At(prev, x, y) = "Occupied"
         /\ count(prev, x, y, "Inf") = 4
         /\ At(state, x, y) = (IF depth = "Inf" THEN "Occupied" ELSE "Empty")
   /\ \E y \in 0..(prev.height - 1) : \E x \in 0..(prev.width - 3) :
         /\ At(prev, x + 1, y) = "Empty"
         /\ At(prev, x + 2, y) = "Occupied"

====
